---- MODULE Spec2Model ----
(***************************************************************************)
(* sap.f.IllustratedMessage: the control's properties, its hidden          *)
(* aggregations, the cached illustration set and type, the media style     *)
(* classes and the resize-handler registration, as a state machine.        *)
(*                                                                         *)
(* Strings that the code takes apart or concatenates (illustrationType,    *)
(* resource-bundle keys, texts) are sequences of tokens; the token "-" is  *)
(* the hyphen and every other token is a hyphen-free piece of text.  The   *)
(* empty string is <<>>.                                                   *)
(***************************************************************************)
EXTENDS Naturals, Integers, Sequences, FiniteSets

VARIABLES
    this,         \* the control instance: properties, aggregations, private fields
    alloc,        \* number of child controls constructed so far, per class
    rh,           \* sap/ui/core/ResizeHandler: registered listeners and id counter
    dom,          \* whether getDomRef() returns an element
    phase,        \* lifecycle position: "new", "rendering", "rendered", "destroyed"
    rendered,     \* the illustrationSize at the last onAfterRendering, "" before the first
    lastCall      \* the last step: operation, returned child, width handed to _updateMedia

vars == <<this, alloc, rh, dom, phase, rendered, lastCall>>

-----------------------------------------------------------------------------
(* Bounds of the model *)

MaxRegistrations == 3
MaxWidth == 700

-----------------------------------------------------------------------------
(* JavaScript values *)

Undefined == <<"<undefined>">>
EmptyString == <<>>
Hyphen == "-"

\* String(v), as used by the + operator on a string and v
ToStr(v) == IF v = Undefined THEN <<"undefined">> ELSE v

\* truthiness of a string or undefined
Truthy(v) == v # Undefined /\ v # EmptyString

\* index of the first hyphen of s, 0 when there is none
RECURSIVE IndexOfHyphen(_, _)
IndexOfHyphen(s, i) ==
    IF i > Len(s) THEN 0
    ELSE IF s[i] = Hyphen THEN i
    ELSE IndexOfHyphen(s, i + 1)

\* s.split("-"): the sequence of the pieces between the hyphens
RECURSIVE Split(_)
Split(s) ==
    LET i == IndexOfHyphen(s, 1)
    IN  IF i = 0 THEN <<s>>
        ELSE <<SubSeq(s, 1, i - 1)>> \o Split(SubSeq(s, i + 1, Len(s)))

\* a[i] of a JavaScript array, zero-based
At(a, i) == IF i + 1 \in DOMAIN a THEN a[i + 1] ELSE Undefined

-----------------------------------------------------------------------------
(* Static members *)

PREPENDS == [DESCRIPTION |-> <<"IllustratedMessage_DESCRIPTION_">>,
             TITLE       |-> <<"IllustratedMessage_TITLE_">>]

BREAK_POINTS_DIALOG == 679
BREAK_POINTS_SPOT == 319
BREAK_POINTS_BASE == 259

BREAK_POINTS == [DIALOG |-> BREAK_POINTS_DIALOG,
                 SPOT   |-> BREAK_POINTS_SPOT,
                 BASE   |-> BREAK_POINTS_BASE]

MEDIA == [BASE   |-> "sapFIllustratedMessage-Base",
          SPOT   |-> "sapFIllustratedMessage-Spot",
          DIALOG |-> "sapFIllustratedMessage-Dialog",
          SCENE  |-> "sapFIllustratedMessage-Scene"]

RESIZE_HANDLER_ID == [CONTENT |-> "_sContentResizeHandlerId"]

\* Object.keys(IllustratedMessage.MEDIA), in insertion order
MediaKeys == <<"BASE", "SPOT", "DIALOG", "SCENE">>

MediaClasses == {MEDIA[MediaKeys[i]] : i \in DOMAIN MediaKeys}

\* sap.f.IllustratedMessageSize
IllustratedMessageSize == {"Auto", "Base", "Spot", "Dialog", "Scene"}

\* sSize.toUpperCase() on the values of IllustratedMessageSize
ToUpperCase == [Auto |-> "AUTO", Base |-> "BASE", Spot |-> "SPOT",
                Dialog |-> "DIALOG", Scene |-> "SCENE"]

\* sMedia.charAt(0) + sMedia.slice(1).toLowerCase() on the keys of MEDIA
Capitalized == [BASE |-> "Base", SPOT |-> "Spot", DIALOG |-> "Dialog", SCENE |-> "Scene"]

\* IllustratedMessage.MEDIA[sKey], undefined ("") for a key MEDIA does not have
MediaOf(sKey) == IF sKey \in DOMAIN MEDIA THEN MEDIA[sKey] ELSE ""

-----------------------------------------------------------------------------
(* The framework around the control *)

\* the default illustration set and the illustration types that have texts
DefaultSet == <<"sapIllus">>
DefaultType == <<"sapIllus", "-", "NoSearchResults">>
BundleTypes == {<<"NoSearchResults">>, <<"NoData">>}

\* the sap.f resource bundle: the keys it has and their texts
BundleKeys == {PREPENDS.DESCRIPTION \o t : t \in BundleTypes}
              \cup {PREPENDS.TITLE \o t : t \in BundleTypes}

ResourceBundle == [k \in BundleKeys |-> <<"text of">> \o k]

\* ResourceBundle.getText(sKey, aArgs, bIgnoreKeyFallback = true)
GetText(sKey) == IF sKey \in BundleKeys THEN ResourceBundle[sKey] ELSE Undefined

\* the value a string property takes when set to v (undefined: the default "")
StringProperty(v) == IF v = Undefined THEN EmptyString ELSE v

\* A world is what an operation of the control reads and writes:
\*   this, alloc, rh, dom   the variables of the same names
\*   rect   the width getBoundingClientRect() reports for the DOM element
\*   ret    the aggregation child the operation returns, NoRet for none
\*   arg    the width the operation handed to _updateMedia, NoArg for none
NoRet == [agg |-> "", inst |-> 0]
NoArg == -1

\* ManagedObject.setProperty: stores the value (the rendering follows later)
SetProperty(w, sName, v) == [w EXCEPT !.this[sName] = v]

\* Element.toggleStyleClass(sClass, bAdd)
ToggleStyleClass(w, sClass, bAdd) ==
    [w EXCEPT !.this.aCustomStyleClasses =
        IF bAdd THEN @ \cup {sClass} ELSE @ \ {sClass}]

\* getAggregation of a 0..1 aggregation is null when it holds no child
HasChild(w, sName) == Len(w.this[sName]) = 1

\* new Class(): a fresh instance, numbered by the constructor calls of its class
NewChild(w, sClass) == [w EXCEPT !.alloc[sClass] = @ + 1]

\* setAggregation(sName, oChild) of a 0..1 aggregation
SetAggregation(w, sName, child) == [w EXCEPT !.this[sName] = <<child>>]

\* the reference to the child of aggregation sName
Ref(w, sName) == [agg |-> sName, inst |-> w.this[sName][1].inst]

\* ResizeHandler.register(oObject, fnHandler): a new listener id
ResizeHandlerRegister(r) ==
    [listeners |-> r.listeners \cup {r.next}, next |-> r.next + 1]

\* ResizeHandler.deregister(sId)
ResizeHandlerDeregister(r, sId) == [r EXCEPT !.listeners = @ \ {sId}]

-----------------------------------------------------------------------------
(* Getters and setters *)

\* _updateInternalIllustrationSetAndType(sValue)
_updateInternalIllustrationSetAndType(w, sValue) ==
    LET aValues == Split(sValue)
    IN  [w EXCEPT !.this._sIllustrationSet = At(aValues, 0),
                  !.this._sIllustrationType = At(aValues, 1)]

\* setIllustrationType that leaves the cached set and type as they were
setIllustrationType_staleCache(w, sValue) ==
    IF w.this.illustrationType = sValue THEN w
    ELSE SetProperty(w, "illustrationType", sValue)

\* setIllustrationType(sValue)
setIllustrationType(w, sValue) ==
    IF w.this.illustrationType = sValue THEN w
    ELSE SetProperty(_updateInternalIllustrationSetAndType(w, sValue),
                     "illustrationType", sValue)

\* _getDefaultDescription()
_getDefaultDescription(w) ==
    GetText(PREPENDS.DESCRIPTION \o ToStr(w.this._sIllustrationType))

\* _getFormattedText()
_getFormattedText(w) ==
    LET sDescription == w.this.description
        w1 == IF ~HasChild(w, "_formattedText")
              THEN LET n == NewChild(w, "FormattedText")
                   IN  SetAggregation(n, "_formattedText",
                           [inst |-> n.alloc.FormattedText, htmlText |-> EmptyString])
              ELSE w
        sHtml == IF Truthy(sDescription) THEN sDescription
                 ELSE _getDefaultDescription(w1)
    IN  [w1 EXCEPT !.this._formattedText[1].htmlText = StringProperty(sHtml),
                   !.ret = Ref(w1, "_formattedText")]

\* _getIllustration()
_getIllustration(w) ==
    LET w1 == IF ~HasChild(w, "_illustration")
              THEN LET n == NewChild(w, "Illustration")
                   IN  SetAggregation(n, "_illustration",
                           [inst |-> n.alloc.Illustration, set |-> Undefined,
                            media |-> "", type |-> Undefined])
              ELSE w
    IN  [w1 EXCEPT !.ret = Ref(w1, "_illustration")]

\* _getText that constructs a new Text on every call
_getText_alwaysNew(w) ==
    LET sDescription == w.this.description
        n == NewChild(w, "Text")
        w1 == SetAggregation(n, "_text", [inst |-> n.alloc.Text, text |-> EmptyString])
        sText == IF Truthy(sDescription) THEN sDescription
                 ELSE _getDefaultDescription(w1)
    IN  [w1 EXCEPT !.this._text[1].text = StringProperty(sText),
                   !.ret = Ref(w1, "_text")]

\* _getText()
_getText(w) ==
    LET sDescription == w.this.description
        w1 == IF ~HasChild(w, "_text")
              THEN LET n == NewChild(w, "Text")
                   IN  SetAggregation(n, "_text",
                           [inst |-> n.alloc.Text, text |-> EmptyString])
              ELSE w
        sText == IF Truthy(sDescription) THEN sDescription
                 ELSE _getDefaultDescription(w1)
    IN  [w1 EXCEPT !.this._text[1].text = StringProperty(sText),
                   !.ret = Ref(w1, "_text")]

\* _getDescription with the two branches exchanged
_getDescription_swapped(w) ==
    IF w.this.enableFormattedText THEN _getText(w) ELSE _getFormattedText(w)

\* _getDescription()
_getDescription(w) ==
    IF w.this.enableFormattedText THEN _getFormattedText(w) ELSE _getText(w)

\* _getTitle()
_getTitle(w) ==
    LET sTitle == w.this.title
        w1 == IF ~HasChild(w, "_title")
              THEN LET n == NewChild(w, "Title")
                   IN  SetAggregation(n, "_title",
                           [inst |-> n.alloc.Title, text |-> EmptyString])
              ELSE w
        sText == IF Truthy(sTitle) THEN sTitle
                 ELSE GetText(PREPENDS.TITLE \o ToStr(w1.this._sIllustrationType))
    IN  [w1 EXCEPT !.this._title[1].text = StringProperty(sText),
                   !.ret = Ref(w1, "_title")]

-----------------------------------------------------------------------------
(* Private methods *)

\* one iteration of the forEach of _updateMediaStyle, for the key sMedia
UpdateMediaStyleStep(w, sMedia, sCurrentMedia) ==
    LET bEnable == sCurrentMedia = MEDIA[sMedia]
        sIdMedia == Capitalized[sMedia]
        w1 == ToggleStyleClass(w, MEDIA[sMedia], bEnable)
    IN  IF bEnable /\ sCurrentMedia # MEDIA.BASE
        THEN LET w2 == _getIllustration(w1)
             IN  [w2 EXCEPT !.this._illustration[1].set = w2.this._sIllustrationSet,
                            !.this._illustration[1].media = sIdMedia,
                            !.this._illustration[1].type = w2.this._sIllustrationType,
                            !.ret = NoRet]
        ELSE w1

\* _updateMediaStyle(sCurrentMedia): the forEach over the keys from the i-th on
RECURSIVE UpdateMediaStyleFrom(_, _, _)
UpdateMediaStyleFrom(w, i, sCurrentMedia) ==
    IF i > Len(MediaKeys) THEN w
    ELSE UpdateMediaStyleFrom(UpdateMediaStyleStep(w, MediaKeys[i], sCurrentMedia),
                              i + 1, sCurrentMedia)

_updateMediaStyle(w, sCurrentMedia) == UpdateMediaStyleFrom(w, 1, sCurrentMedia)

\* _updateMedia with < in place of <=
_updateMedia_exclusive(w, iWidth) ==
    LET w1 == [w EXCEPT !.arg = iWidth]
    IN  IF iWidth = 0 THEN w1
        ELSE IF iWidth < BREAK_POINTS.BASE THEN _updateMediaStyle(w1, MEDIA.BASE)
        ELSE IF iWidth < BREAK_POINTS.SPOT THEN _updateMediaStyle(w1, MEDIA.SPOT)
        ELSE IF iWidth < BREAK_POINTS.DIALOG THEN _updateMediaStyle(w1, MEDIA.DIALOG)
        ELSE _updateMediaStyle(w1, MEDIA.SCENE)

\* _updateMedia(iWidth)
_updateMedia(w, iWidth) ==
    LET w1 == [w EXCEPT !.arg = iWidth]
    IN  IF iWidth = 0 THEN w1
        ELSE IF iWidth <= BREAK_POINTS.BASE THEN _updateMediaStyle(w1, MEDIA.BASE)
        ELSE IF iWidth <= BREAK_POINTS.SPOT THEN _updateMediaStyle(w1, MEDIA.SPOT)
        ELSE IF iWidth <= BREAK_POINTS.DIALOG THEN _updateMediaStyle(w1, MEDIA.DIALOG)
        ELSE _updateMediaStyle(w1, MEDIA.SCENE)

\* _updateDomSize()
_updateDomSize(w) ==
    IF w.dom
    THEN LET sSize == w.this.illustrationSize
         IN  IF sSize = "Auto" THEN _updateMedia(w, w.rect)
             ELSE _updateMediaStyle(w, MediaOf(ToUpperCase[sSize]))
    ELSE w

\* _onResize(oEvent)
_onResize(w, oEvent) ==
    LET iCurrentWidth == oEvent.size.width
    IN  _updateMedia(w, iCurrentWidth)

-----------------------------------------------------------------------------
(* Attach / detach handlers *)

\* _registerResizeHandler(sHandler, oObject, fnHandler)
_registerResizeHandler(w, sHandler) ==
    IF w.this[sHandler] = 0
    THEN [w EXCEPT !.this[sHandler] = w.rh.next,
                   !.rh = ResizeHandlerRegister(w.rh)]
    ELSE w

\* _deRegisterResizeHandler(sHandler)
_deRegisterResizeHandler(w, sHandler) ==
    IF w.this[sHandler] # 0
    THEN [w EXCEPT !.rh = ResizeHandlerDeregister(w.rh, w.this[sHandler]),
                   !.this[sHandler] = 0]
    ELSE w

\* _attachResizeHandlers that does not look at illustrationSize
_attachResizeHandlers_anySize(w) ==
    IF w.dom THEN _registerResizeHandler(w, RESIZE_HANDLER_ID.CONTENT) ELSE w

\* _attachResizeHandlers()
_attachResizeHandlers(w) ==
    LET sIllustrationSize == w.this.illustrationSize
    IN  IF w.dom /\ sIllustrationSize = "Auto"
        THEN _registerResizeHandler(w, RESIZE_HANDLER_ID.CONTENT)
        ELSE w

\* _detachResizeHandlers()
_detachResizeHandlers(w) == _deRegisterResizeHandler(w, RESIZE_HANDLER_ID.CONTENT)

-----------------------------------------------------------------------------
(* Lifecycle methods *)

\* init()
init(w) == _updateInternalIllustrationSetAndType(w, w.this.illustrationType)

\* onBeforeRendering()
onBeforeRendering(w) == _detachResizeHandlers(w)

\* onAfterRendering()
onAfterRendering(w) == _attachResizeHandlers(_updateDomSize(w))

\* exit that leaves the resize handler registered
exit_keepsHandler(w) == w

\* exit()
exit(w) == _detachResizeHandlers(w)

-----------------------------------------------------------------------------
(* The state after construction and the inputs of the operations *)

Descriptions == {EmptyString, <<"Custom description">>}
Titles == {EmptyString, <<"Custom title">>}
IllustrationTypes ==
    {DefaultType,
     <<"sapIllus", "-", "NoData">>,
     <<"tnt", "-", "NoData">>,
     <<"tnt", "-", "Mission">>,
     <<"sapIllus">>}
Widths ==
    {0, 1,
     BREAK_POINTS.BASE, BREAK_POINTS.BASE + 1,
     BREAK_POINTS.SPOT, BREAK_POINTS.SPOT + 1,
     BREAK_POINTS.DIALOG, BREAK_POINTS.DIALOG + 1,
     MaxWidth}

\* the property defaults of the metadata, empty aggregations, no handler
Defaults ==
    [description |-> EmptyString,
     enableFormattedText |-> FALSE,
     illustrationSize |-> "Auto",
     illustrationType |-> DefaultType,
     title |-> EmptyString,
     _formattedText |-> <<>>,
     _illustration |-> <<>>,
     _text |-> <<>>,
     _title |-> <<>>,
     aCustomStyleClasses |-> {},
     _sIllustrationSet |-> Undefined,
     _sIllustrationType |-> Undefined,
     _sContentResizeHandlerId |-> 0]

World ==
    [this |-> this, alloc |-> alloc, rh |-> rh, dom |-> dom,
     rect |-> 0, ret |-> NoRet, arg |-> NoArg]

\* the step of operation sOp that leaves the world w
Commit(sOp, w) ==
    /\ this' = w.this
    /\ alloc' = w.alloc
    /\ rh' = w.rh
    /\ dom' = w.dom
    /\ lastCall' = [op |-> sOp, ret |-> w.ret, arg |-> w.arg,
                    fresh |-> w.alloc # alloc]

\* the framework neither renders nor destroys a destroyed control
NotDestroyed == phase # "destroyed"

Init ==
    LET w == init([this |-> Defaults])
    IN  /\ this = w.this
        /\ alloc = [Text |-> 0, FormattedText |-> 0, Title |-> 0, Illustration |-> 0]
        /\ rh = [listeners |-> {}, next |-> 1]
        /\ dom = FALSE
        /\ phase = "new"
        /\ rendered = ""
        /\ lastCall = [op |-> "init", ret |-> NoRet, arg |-> NoArg, fresh |-> FALSE]

-----------------------------------------------------------------------------
(* Actions: a setter or a getter is called, by the application or a renderer, *)
(* at any point of the control's life                                         *)

SetDescription ==
    /\ \E v \in Descriptions : Commit("setDescription", SetProperty(World, "description", v))
    /\ UNCHANGED <<phase, rendered>>

SetTitle ==
    /\ \E v \in Titles : Commit("setTitle", SetProperty(World, "title", v))
    /\ UNCHANGED <<phase, rendered>>

SetEnableFormattedText ==
    /\ \E b \in BOOLEAN :
          Commit("setEnableFormattedText", SetProperty(World, "enableFormattedText", b))
    /\ UNCHANGED <<phase, rendered>>

SetIllustrationSize ==
    /\ \E v \in IllustratedMessageSize :
          Commit("setIllustrationSize", SetProperty(World, "illustrationSize", v))
    /\ UNCHANGED <<phase, rendered>>

SetIllustrationType ==
    /\ \E v \in IllustrationTypes : Commit("setIllustrationType", setIllustrationType(World, v))
    /\ UNCHANGED <<phase, rendered>>

GetText_ ==
    /\ Commit("_getText", _getText(World))
    /\ UNCHANGED <<phase, rendered>>

GetFormattedText ==
    /\ Commit("_getFormattedText", _getFormattedText(World))
    /\ UNCHANGED <<phase, rendered>>

GetDescription ==
    /\ Commit("_getDescription", _getDescription(World))
    /\ UNCHANGED <<phase, rendered>>

GetTitle ==
    /\ Commit("_getTitle", _getTitle(World))
    /\ UNCHANGED <<phase, rendered>>

GetIllustration ==
    /\ Commit("_getIllustration", _getIllustration(World))
    /\ UNCHANGED <<phase, rendered>>

-----------------------------------------------------------------------------
(* Actions: the framework renders the control, reports a resize, destroys it *)

\* a rendering starts: the hook runs
OnBeforeRendering ==
    /\ NotDestroyed
    /\ rh.next <= MaxRegistrations
    /\ Commit("onBeforeRendering", onBeforeRendering(World))
    /\ phase' = "rendering"
    /\ UNCHANGED rendered

\* the rendering ends: the new DOM is in place (or the control has none), the hook runs
OnAfterRendering ==
    /\ phase = "rendering"
    /\ \E bDom \in BOOLEAN, iWidth \in Widths :
          Commit("onAfterRendering",
                 onAfterRendering([World EXCEPT !.dom = bDom, !.rect = iWidth]))
    /\ phase' = "rendered"
    /\ rendered' = this.illustrationSize

\* the ResizeHandler calls a registered listener of the control
ResizeEvent ==
    /\ \E sId \in rh.listeners, iWidth \in Widths :
          Commit("_onResize", _onResize(World, [size |-> [width |-> iWidth]]))
    /\ UNCHANGED <<phase, rendered>>

\* destroy(): the exit hook runs
Exit ==
    /\ NotDestroyed
    /\ Commit("exit", exit(World))
    /\ phase' = "destroyed"
    /\ UNCHANGED rendered

-----------------------------------------------------------------------------
(* Specifications *)

\* The getters and setters of the texts on one side, the rendering and resize
\* handling on the other, share only illustrationType and the _illustration
\* child: the texts are never written by the layout, the media classes and the
\* resize handler never by the getters.  Each half is explored as its own
\* specification; Spec is their composition.

\* the texts: properties, cached set and type, lazily created children; the
\* getters and setters are also called while a rendering is under way (after
\* onBeforeRendering) and after exit
NextText ==
    \/ OnBeforeRendering
    \/ Exit
    \/ SetDescription
    \/ SetTitle
    \/ SetEnableFormattedText
    \/ SetIllustrationType
    \/ GetText_
    \/ GetFormattedText
    \/ GetDescription
    \/ GetTitle
    \/ GetIllustration

\* the layout: illustrationSize, rendering, resize handling, media classes, destruction
NextLayout ==
    \/ SetIllustrationSize
    \/ SetIllustrationType
    \/ OnBeforeRendering
    \/ OnAfterRendering
    \/ ResizeEvent
    \/ Exit

Next == NextText \/ NextLayout

SpecText == Init /\ [][NextText]_vars
SpecLayout == Init /\ [][NextLayout]_vars
Spec == Init /\ [][Next]_vars

-----------------------------------------------------------------------------
(* What the properties say, read off the properties themselves *)

\* the set and the type named by the illustrationType property
SetOfProperty == At(Split(this.illustrationType), 0)
TypeOfProperty == At(Split(this.illustrationType), 1)

\* the resource bundle's default texts for the type named by the property
DefaultDescriptionOfProperty ==
    StringProperty(GetText(PREPENDS.DESCRIPTION \o ToStr(TypeOfProperty)))
DefaultTitleOfProperty ==
    StringProperty(GetText(PREPENDS.TITLE \o ToStr(TypeOfProperty)))

BundleTexts == {ResourceBundle[k] : k \in BundleKeys}

\* the media classes the control carries
MediaClassesOn == this.aCustomStyleClasses \cap MediaClasses

\* the text the description control returned by the last step shows
ShownDescription ==
    IF lastCall.ret.agg = "_formattedText" THEN this._formattedText[1].htmlText
    ELSE this._text[1].text

\* the breakpoints as the documentation of the control states them
MediaForWidth(iWidth) ==
    IF iWidth <= 259 THEN "sapFIllustratedMessage-Base"
    ELSE IF iWidth <= 319 THEN "sapFIllustratedMessage-Spot"
    ELSE IF iWidth <= 679 THEN "sapFIllustratedMessage-Dialog"
    ELSE "sapFIllustratedMessage-Scene"

-----------------------------------------------------------------------------
(* Claims *)

\* C1: after _getText or _getFormattedText the description control shows the
\* description property when it is non-empty, the resource bundle's default
\* description of the current type when the property is empty and the default
\* illustration set is used, and no default text of the bundle otherwise.
C1_DescriptionOrDefaultOfDefaultSet ==
    lastCall.op \in {"_getText", "_getFormattedText"} =>
        /\ Truthy(this.description) => ShownDescription = this.description
        /\ ~Truthy(this.description) /\ SetOfProperty = DefaultSet =>
               ShownDescription = DefaultDescriptionOfProperty
        /\ ShownDescription \in BundleTexts =>
               ~Truthy(this.description) /\ SetOfProperty = DefaultSet

\* C2: after _getTitle the title control shows the title property when it is
\* non-empty, and the default title of the type the illustrationType property
\* names now when the title is empty and the default set is used; whatever
\* setTitle and setIllustrationType calls came before.
C2_TitleReflectsCurrentValues ==
    lastCall.op = "_getTitle" =>
        /\ HasChild(World, "_title")
        /\ lastCall.ret = Ref(World, "_title")
        /\ Truthy(this.title) => this._title[1].text = this.title
        /\ ~Truthy(this.title) /\ SetOfProperty = DefaultSet =>
               this._title[1].text = DefaultTitleOfProperty

\* C2 happens: an existing title control, asked again after the type was changed
\* to NoData of the default set, shows the default title of NoData
C2_Witness ==
    /\ lastCall.op = "_getTitle"
    /\ ~lastCall.fresh
    /\ this.title = EmptyString
    /\ this.illustrationType = <<"sapIllus", "-", "NoData">>
    /\ this._title[1].text = ResourceBundle[PREPENDS.TITLE \o <<"NoData">>]

\* C3: _getDescription returns the child of _formattedText when
\* enableFormattedText is true and the child of _text when it is false, and the
\* returned control carries the description, or the default description of the
\* current type when the description is empty.
C3_DescriptionFollowsFlag ==
    lastCall.op = "_getDescription" =>
        LET sAgg == IF this.enableFormattedText THEN "_formattedText" ELSE "_text"
        IN  /\ HasChild(World, sAgg)
            /\ lastCall.ret = Ref(World, sAgg)
            /\ ShownDescription =
                   IF Truthy(this.description) THEN this.description
                   ELSE DefaultDescriptionOfProperty

\* C3 happens: the flag was toggled (both children exist) and the FormattedText,
\* already there, is returned with the custom description
C3_Witness ==
    /\ lastCall.op = "_getDescription"
    /\ ~lastCall.fresh
    /\ this.enableFormattedText
    /\ alloc.Text = 1
    /\ lastCall.ret.agg = "_formattedText"
    /\ this._formattedText[1].htmlText = <<"Custom description">>

\* C4 as stated: whenever illustrationSize is a fixed value and the control has
\* a DOM reference, the media class on the control is the one of that size.
C4_FixedSizeClassAlways ==
    (this.illustrationSize # "Auto" /\ dom) =>
        MediaClassesOn = {MEDIA[ToUpperCase[this.illustrationSize]]}

\* C4 amended: whenever illustrationSize is a fixed value, the control has a DOM
\* reference and the control was last rendered with that illustrationSize, the
\* media class on the control is the one of that size.
C4_FixedSizeClassOnceRendered ==
    (this.illustrationSize # "Auto" /\ dom /\ rendered = this.illustrationSize) =>
        MediaClassesOn = {MEDIA[ToUpperCase[this.illustrationSize]]}

\* C4 happens: after a rendering with Auto that registered a handler, the control
\* was rendered again with Dialog and carries the Dialog class
C4_Witness ==
    /\ phase = "rendered"
    /\ dom
    /\ rh.next > 1
    /\ this.illustrationSize = "Dialog"
    /\ rendered = "Dialog"
    /\ MediaClassesOn = {MEDIA.DIALOG}

\* C5: a step that handed a positive width w to _updateMedia leaves exactly the
\* media class of w on the control: Base up to 259, Spot up to 319, Dialog up to
\* 679, Scene above.
C5_BreakpointSelection ==
    lastCall.arg > 0 => MediaClassesOn = {MediaForWidth(lastCall.arg)}

\* C5 happens: a resize to 260, one above the Base breakpoint, selected Spot
C5_Witness ==
    /\ lastCall.op = "_onResize"
    /\ lastCall.arg = 260
    /\ MediaClassesOn = {MEDIA.SPOT}

\* C6: right after onAfterRendering a resize handler is registered exactly when
\* the control has a DOM reference and illustrationSize is Auto; right after
\* onBeforeRendering and exit, and in a control never rendered, being rendered
\* or destroyed, none is registered; the ResizeHandler never holds a listener
\* the control does not know.
C6_ResizeHandlerLifecycle ==
    /\ lastCall.op = "onAfterRendering" =>
           ((this._sContentResizeHandlerId # 0) <=>
                (dom /\ this.illustrationSize = "Auto"))
    /\ lastCall.op \in {"onBeforeRendering", "exit"} =>
           this._sContentResizeHandlerId = 0
    /\ rh.listeners = IF this._sContentResizeHandlerId = 0 THEN {}
                      ELSE {this._sContentResizeHandlerId}
    /\ phase \in {"new", "rendering", "destroyed"} => rh.listeners = {}

\* C6 happens: a control that had registered a handler was destroyed
C6_Witness ==
    /\ phase = "destroyed"
    /\ lastCall.op = "exit"
    /\ rh.next > 1
    /\ rh.listeners = {}

\* C7: each hidden aggregation holds a child exactly when one was constructed
\* for it, at most one is ever constructed per aggregation, and a getter
\* returns the one child of its aggregation.
C7_AtMostOneChildPerAggregation ==
    /\ \A sAgg \in {"_text", "_formattedText", "_title", "_illustration"} :
          LET sClass == CASE sAgg = "_text" -> "Text"
                          [] sAgg = "_formattedText" -> "FormattedText"
                          [] sAgg = "_title" -> "Title"
                          [] sAgg = "_illustration" -> "Illustration"
          IN  /\ alloc[sClass] <= 1
              /\ HasChild(World, sAgg) <=> alloc[sClass] = 1
              /\ HasChild(World, sAgg) => this[sAgg][1].inst = 1
    /\ lastCall.op \in {"_getText", "_getFormattedText", "_getTitle",
                        "_getIllustration", "_getDescription"} =>
           /\ lastCall.ret.inst = 1
           /\ lastCall.op = "_getText" => lastCall.ret.agg = "_text"
           /\ lastCall.op = "_getFormattedText" => lastCall.ret.agg = "_formattedText"
           /\ lastCall.op = "_getTitle" => lastCall.ret.agg = "_title"
           /\ lastCall.op = "_getIllustration" => lastCall.ret.agg = "_illustration"

\* C7 happens: all four children exist and a later _getText returned the Text
\* that was already there
C7_Witness ==
    /\ \A sClass \in DOMAIN alloc : alloc[sClass] = 1
    /\ lastCall.op = "_getText"
    /\ ~lastCall.fresh
    /\ lastCall.ret = [agg |-> "_text", inst |-> 1]

====
